---- MODULE Spec2Model ----
(***************************************************************************)
(* Model of board/can_comms.h: the chunked CAN packet stream between the   *)
(* host and the CAN queues.  comms_can_read serialises packets popped from *)
(* can_rx_q into transfers of max_len bytes, comms_can_write reassembles   *)
(* packets from transfers of len bytes and hands them to can_send, and     *)
(* comms_can_reset clears the two overflow buffers.                        *)
(*                                                                         *)
(* C arrays are sequences: C index i is sequence index i + 1.  Offsets and *)
(* lengths keep their C (0-based) values.                                  *)
(***************************************************************************)
EXTENDS Integers, Sequences, FiniteSets, TLC

VARIABLES
  can_read_buffer,   \* asm_buffer: [ptr, tail_size, data]
  can_write_buffer,  \* asm_buffer: [ptr, tail_size, data]
  can_rx_q,          \* packets waiting for the host, oldest first
  tx_free,           \* free slots of the transmit pool
  rd,                \* the last comms_can_read call: arguments, locals, result
  rd_hist,           \* read direction: the bytes owed to the host, compared with those returned
  wr,                \* the last comms_can_write call: arguments, locals, effects
  wr_hist,           \* write direction: the bytes written, compared with the packets sent
  host,              \* the host's outgoing byte stream
  sess,              \* what the last comms_can_reset discarded
  pc,                \* position of a read call and of a write call run step by step
  conc               \* results expected of the calls that run step by step

vars == <<can_read_buffer, can_write_buffer, can_rx_q, tx_free, rd, rd_hist,
          wr, wr_hist, host, sess, pc, conc>>

----------------------------------------------------------------------------
(* Program constants *)

\* uint8_t data[72] of asm_buffer
BUF_SIZE == 72

\* bytes 0..5 of the wire format are the header, byte 6 is data0
CANPACKET_HEAD_SIZE == 6

\* Modulus of the uint32_t arithmetic.  TLC's integers are 32-bit signed, so
\* 2^32 itself cannot be written; 2^30 stands for it.  Every length, offset
\* and capacity of the model is below 2^9, so a wrapped difference is far
\* above every buffer size, as it is with 2^32.
UINT32_MOD == 1073741824

\* payload length of each data length code
dlc_to_len == <<0, 1, 2, 3, 4, 5, 6, 7, 8, 12, 16, 20, 24, 32, 48, 64>>

\* a destination byte no memcpy has stored
Unwritten == -1

----------------------------------------------------------------------------
(* Bounds of the model *)

\* packets the CAN receive path enqueues in one run
MaxRxFrames == 2

\* packets the host serialises in one run
MaxTxFrames == 2

\* packets the host serialises in a run with resets
MaxSessFrames == 2

\* packets the CAN receive path enqueues in a run with resets
MaxSessRxFrames == 1

\* resets in one run
MaxResets == 1

\* data length codes of the packets the host serialises in a run with resets
SessDlcs == {0, 8}

\* data length codes of the packets enqueued in a run with resets: the longest
SessRxDlcs == {15}

\* capacities and transfer lengths of a run with resets
SessLens == {0, 1, 64}

\* packets of each direction in a run whose calls are interleaved step by step
MaxConcFrames == 1

\* data length codes of the packets of a run whose calls are interleaved
ConcDlcs == {0, 8}

\* capacities and transfer lengths of a run whose calls are interleaved
ConcLens == {5, 64}

\* slots of the transmit pool
TxPool == 3

\* data length codes of the packets of a run
FrameDlcs == {0, 8, 15}

\* capacities the transport passes to comms_can_read
ReadLens == {1, 64}

\* bytes a transfer to comms_can_write can carry
WriteLens == {0, 1, 5, 64}

----------------------------------------------------------------------------
(* C helpers *)

MIN(a, b) == IF a < b THEN a ELSE b

Max(a, b) == IF a < b THEN b ELSE a

Sub32(a, b) == (a - b + UINT32_MOD) % UINT32_MOD

Add32(a, b) == (a + b) % UINT32_MOD

\* src[k] (1-based); a read past the object yields a byte of no packet
ByteAt(src, k) == IF k \in 1..Len(src) THEN src[k] ELSE Unwritten

\* memcpy(&dst[doff], &src[soff], n), dst and src distinct objects; stores
\* past the end of dst are not part of dst
memcpy(dst, doff, src, soff, n) ==
  [i \in 1..Len(dst) |->
     IF doff < i /\ i <= doff + n THEN ByteAt(src, soff + (i - doff)) ELSE dst[i]]

\* memcpy(&arr[doff], &arr[soff], n) inside one object, copied byte by byte
\* from the lowest address up: byte k of the source is read after bytes
\* 0 .. k-1 of the destination are stored
RECURSIVE memcpy_up(_, _, _, _, _)
memcpy_up(arr, doff, soff, n, k) ==
  IF k >= n \/ doff + k >= Len(arr) THEN arr
  ELSE memcpy_up([arr EXCEPT ![doff + k + 1] = ByteAt(arr, soff + k + 1)],
                 doff, soff, n, k + 1)

\* the same copy; when the destination starts at or below the source no byte
\* is read after it was stored, and every byte stored is the old byte
memcpy_fwd(arr, doff, soff, n) ==
  IF doff <= soff
  THEN [i \in 1..Len(arr) |->
          IF doff < i /\ i <= doff + n THEN ByteAt(arr, soff + (i - doff)) ELSE arr[i]]
  ELSE memcpy_up(arr, doff, soff, n, 0)

\* byte 0: DLC[7:4], bus[3:1], fd[0]
data_len_code(pkt) == pkt[1] \div 16

bus(pkt) == (pkt[1] \div 2) % 8

\* CANPACKET_HEAD_SIZE + dlc_to_len[code]
PcktLen(code) == CANPACKET_HEAD_SIZE + dlc_to_len[code + 1]

\* The packet with data length code dlc, the id-th of its direction.  Byte 0
\* carries the code, a bus and the fd bit; every later byte depends on its
\* place and on id, so that a lost, repeated or misplaced byte shows, and the
\* bytes run through every value of the high four bits, byte 1 first with
\* the highest: read as byte 0 of a packet they declare every length.
MkFrame(dlc, id) ==
  [j \in 1..PcktLen(dlc) |->
     IF j = 1 THEN dlc * 16 + (id % 3) * 2 + (IF dlc > 8 THEN 1 ELSE 0)
     ELSE (255 + 256 - ((j - 2) % 15) * 17 - id * 7) % 256]

RECURSIVE Concat(_)
Concat(ss) == IF ss = <<>> THEN <<>> ELSE Head(ss) \o Concat(Tail(ss))

EmptyBuffer == [ptr |-> 0, tail_size |-> 0, data |-> [i \in 1..BUF_SIZE |-> 0]]

----------------------------------------------------------------------------
(* comms_can_read *)

\* can_pop(&can_rx_q, &can_packet): the oldest packet, if there is one
can_pop(q) ==
  IF q = <<>> THEN [ok |-> FALSE, q |-> q, pkt |-> <<>>]
  ELSE [ok |-> TRUE, q |-> Tail(q), pkt |-> Head(q)]

\* entry of the call: uint32_t pos = 0U; data is the caller's buffer of max_len bytes.
\* dst_hi and buf_hi are the highest index + 1 stored in data and touched in
\* can_read_buffer.data so far in the call.  wrapped: an unsigned subtraction
\* had a minuend below its subtrahend.  codes_ok: every index into dlc_to_len
\* was within the table and every pckt_len within 6 .. 70.  started: every
\* packet popped had a byte stored in data.  progress: every pass of the loop
\* body left pos higher than it found it.
ReadEnter(max_len) ==
  [max_len |-> max_len, pos |-> 0, data |-> [i \in 1..max_len |-> Unwritten],
   dst_hi |-> 0, buf_hi |-> 0, popped |-> <<>>, pop_empty |-> FALSE,
   wrapped |-> FALSE, codes_ok |-> TRUE, started |-> TRUE, progress |-> TRUE]

\* comms_can_read_tail without line 53: the bytes left in the buffer are not
\* moved to its front
comms_can_read_tail_noshift(m) ==
  LET rb == m.rb
      c == m.c
  IN IF rb.ptr > 0
     THEN LET overflow_len == MIN(Sub32(c.max_len, c.pos), rb.ptr)
              rest == Sub32(rb.ptr, overflow_len)
          IN [m EXCEPT
                !.c = [c EXCEPT
                         !.data = memcpy(c.data, c.pos, rb.data, 0, overflow_len),
                         !.pos = Add32(c.pos, overflow_len),
                         !.dst_hi = IF overflow_len > 0
                                    THEN Max(@, c.pos + overflow_len) ELSE @,
                         !.buf_hi = Max(@, overflow_len)],
                !.rb = [rb EXCEPT !.ptr = rest]]
     ELSE m

\* comms_can_read_tail with line 54 on the wrong buffer: can_write_buffer.ptr
\* is decreased
comms_can_read_tail_wb(m) ==
  LET rb == m.rb
      c == m.c
  IN IF rb.ptr > 0
     THEN LET overflow_len == MIN(Sub32(c.max_len, c.pos), rb.ptr)
              rest == Sub32(rb.ptr, overflow_len)
          IN [m EXCEPT
                !.c = [c EXCEPT
                         !.data = memcpy(c.data, c.pos, rb.data, 0, overflow_len),
                         !.pos = Add32(c.pos, overflow_len),
                         !.dst_hi = IF overflow_len > 0
                                    THEN Max(@, c.pos + overflow_len) ELSE @,
                         !.buf_hi = Max(@, overflow_len + rest)],
                !.rb = [rb EXCEPT
                          !.data = memcpy_fwd(rb.data, 0, overflow_len, rest),
                          !.ptr = rest],
                !.wb = [m.wb EXCEPT !.ptr = Sub32(@, overflow_len)]]
     ELSE m

\* comms_can_read_tail without the MIN of line 50: overflow_len is all the
\* room of data
comms_can_read_tail_nomin(m) ==
  LET rb == m.rb
      c == m.c
  IN IF rb.ptr > 0
     THEN LET overflow_len == Sub32(c.max_len, c.pos)
              rest == Sub32(rb.ptr, overflow_len)
          IN [m EXCEPT
                !.c = [c EXCEPT
                         !.data = memcpy(c.data, c.pos, rb.data, 0, overflow_len),
                         !.pos = Add32(c.pos, overflow_len),
                         !.dst_hi = IF overflow_len > 0
                                    THEN Max(@, c.pos + overflow_len) ELSE @,
                         !.buf_hi = Max(@, overflow_len + rest),
                         !.wrapped = @ \/ c.max_len < c.pos \/ rb.ptr < overflow_len],
                !.rb = [rb EXCEPT
                          !.data = memcpy_fwd(rb.data, 0, overflow_len, rest),
                          !.ptr = rest]]
     ELSE m

\* "Send tail of previous message if it is in buffer"
comms_can_read_tail(m) ==
  LET rb == m.rb
      c == m.c
  IN IF rb.ptr > 0
     THEN LET overflow_len == MIN(Sub32(c.max_len, c.pos), rb.ptr)
              rest == Sub32(rb.ptr, overflow_len)
          IN [m EXCEPT
                !.c = [c EXCEPT
                         !.data = memcpy(c.data, c.pos, rb.data, 0, overflow_len),
                         !.pos = Add32(c.pos, overflow_len),
                         !.dst_hi = IF overflow_len > 0
                                    THEN Max(@, c.pos + overflow_len) ELSE @,
                         !.buf_hi = Max(@, overflow_len + rest),
                         !.wrapped = @ \/ c.max_len < c.pos \/ rb.ptr < overflow_len],
                !.rb = [rb EXCEPT
                          !.data = memcpy_fwd(rb.data, 0, overflow_len, rest),
                          !.ptr = rest]]
     ELSE m

\* comms_can_read_packet whose second branch copies the whole packet to data,
\* as the first does
comms_can_read_packet_whole(m, pkt) ==
  LET rb == m.rb
      c == m.c
      pckt_len == PcktLen(data_len_code(pkt))
  IN IF Add32(c.pos, pckt_len) <= c.max_len
     THEN [m EXCEPT
             !.c = [c EXCEPT
                      !.data = memcpy(c.data, c.pos, pkt, 0, pckt_len),
                      !.pos = Add32(c.pos, pckt_len),
                      !.dst_hi = Max(@, c.pos + pckt_len),
                      !.popped = Append(@, pkt)]]
     ELSE LET head == Sub32(c.max_len, c.pos)
              ptr == Add32(rb.ptr, Sub32(pckt_len, head))
          IN [m EXCEPT
                !.c = [c EXCEPT
                         !.data = memcpy(c.data, c.pos, pkt, 0, pckt_len),
                         !.pos = c.max_len,
                         !.dst_hi = Max(@, c.pos + pckt_len),
                         !.buf_hi = Max(@, ptr),
                         !.popped = Append(@, pkt)],
                !.rb = [rb EXCEPT
                          !.ptr = ptr,
                          !.data = memcpy(rb.data, 0, pkt, head, ptr)]]

\* comms_can_read_packet without lines 67-69: the bytes that do not fit are
\* not kept
comms_can_read_packet_drop(m, pkt) ==
  LET c == m.c
      pckt_len == PcktLen(data_len_code(pkt))
  IN IF Add32(c.pos, pckt_len) <= c.max_len
     THEN [m EXCEPT
             !.c = [c EXCEPT
                      !.data = memcpy(c.data, c.pos, pkt, 0, pckt_len),
                      !.pos = Add32(c.pos, pckt_len),
                      !.dst_hi = Max(@, c.pos + pckt_len),
                      !.popped = Append(@, pkt)]]
     ELSE LET head == Sub32(c.max_len, c.pos)
          IN [m EXCEPT
                !.c = [c EXCEPT
                         !.data = memcpy(c.data, c.pos, pkt, 0, head),
                         !.pos = c.max_len,
                         !.dst_hi = IF head > 0 THEN Max(@, c.pos + head) ELSE @,
                         !.popped = Append(@, pkt)]]

\* comms_can_read_packet without line 70: pos stays where it was when the
\* packet does not fit
comms_can_read_packet_stay(m, pkt) ==
  LET rb == m.rb
      c == m.c
      pckt_len == PcktLen(data_len_code(pkt))
      codes_ok == /\ data_len_code(pkt) + 1 \in DOMAIN dlc_to_len
                  /\ pckt_len \in CANPACKET_HEAD_SIZE..PcktLen(15)
  IN IF Add32(c.pos, pckt_len) <= c.max_len
     THEN [m EXCEPT
             !.c = [c EXCEPT
                      !.data = memcpy(c.data, c.pos, pkt, 0, pckt_len),
                      !.pos = Add32(c.pos, pckt_len),
                      !.dst_hi = Max(@, c.pos + pckt_len),
                      !.popped = Append(@, pkt),
                      !.codes_ok = @ /\ codes_ok]]
     ELSE LET head == Sub32(c.max_len, c.pos)
              ptr == Add32(rb.ptr, Sub32(pckt_len, head))
          IN [m EXCEPT
                !.c = [c EXCEPT
                         !.data = memcpy(c.data, c.pos, pkt, 0, head),
                         !.dst_hi = IF head > 0 THEN Max(@, c.pos + head) ELSE @,
                         !.buf_hi = Max(@, ptr),
                         !.popped = Append(@, pkt),
                         !.codes_ok = @ /\ codes_ok,
                         !.started = @ /\ head > 0,
                         !.wrapped = @ \/ c.max_len < c.pos \/ pckt_len < head],
                !.rb = [rb EXCEPT
                          !.ptr = ptr,
                          !.data = memcpy(rb.data, 0, pkt, head, ptr)]]

\* one pass of the loop body, for the packet can_pop has just produced
comms_can_read_packet(m, pkt) ==
  LET rb == m.rb
      c == m.c
      pckt_len == PcktLen(data_len_code(pkt))
      codes_ok == /\ data_len_code(pkt) + 1 \in DOMAIN dlc_to_len
                  /\ pckt_len \in CANPACKET_HEAD_SIZE..PcktLen(15)
  IN IF Add32(c.pos, pckt_len) <= c.max_len
     THEN [m EXCEPT
             !.c = [c EXCEPT
                      !.data = memcpy(c.data, c.pos, pkt, 0, pckt_len),
                      !.pos = Add32(c.pos, pckt_len),
                      !.dst_hi = Max(@, c.pos + pckt_len),
                      !.popped = Append(@, pkt),
                      !.codes_ok = @ /\ codes_ok]]
     ELSE LET head == Sub32(c.max_len, c.pos)
              ptr == Add32(rb.ptr, Sub32(pckt_len, head))
          IN [m EXCEPT
                !.c = [c EXCEPT
                         !.data = memcpy(c.data, c.pos, pkt, 0, head),
                         !.pos = c.max_len,
                         !.dst_hi = IF head > 0 THEN Max(@, c.pos + head) ELSE @,
                         !.buf_hi = Max(@, ptr),
                         !.popped = Append(@, pkt),
                         !.codes_ok = @ /\ codes_ok,
                         !.started = @ /\ head > 0,
                         !.wrapped = @ \/ c.max_len < c.pos \/ pckt_len < head],
                !.rb = [rb EXCEPT
                          !.ptr = ptr,
                          !.data = memcpy(rb.data, 0, pkt, head, ptr)]]

\* comms_can_read_step with the operands of && exchanged: can_pop is called
\* before pos is compared, and the packet it gives when pos = max_len is lost
comms_can_read_step_popfirst(m) ==
  LET p == can_pop(m.q)
  IN IF p.ok
     THEN IF m.c.pos < m.c.max_len
          THEN LET n == comms_can_read_packet([m EXCEPT !.q = p.q], p.pkt)
               IN [n EXCEPT !.done = FALSE,
                            !.c.progress = @ /\ m.c.pos < n.c.pos]
          ELSE [m EXCEPT !.q = p.q, !.c.popped = Append(@, p.pkt),
                         !.c.started = FALSE, !.done = TRUE]
     ELSE [m EXCEPT !.c.pop_empty = m.c.pos < m.c.max_len, !.done = TRUE]

\* one evaluation of the loop condition, and the body if it holds:
\* while ((pos < max_len) && can_pop(&can_rx_q, &can_packet)).
\* done tells that the loop has ended.
comms_can_read_step(m) ==
  IF m.c.pos < m.c.max_len
  THEN LET p == can_pop(m.q)
       IN IF p.ok
          THEN LET n == comms_can_read_packet([m EXCEPT !.q = p.q], p.pkt)
               IN [n EXCEPT !.done = FALSE,
                            !.c.progress = @ /\ m.c.pos < n.c.pos]
          ELSE [m EXCEPT !.c.pop_empty = TRUE, !.done = TRUE]
  ELSE [m EXCEPT !.done = TRUE]

\* the loop as an if: one packet at most
comms_can_read_loop_once(m) == [comms_can_read_step(m) EXCEPT !.done = TRUE]

RECURSIVE comms_can_read_loop(_)
comms_can_read_loop(m) ==
  LET n == comms_can_read_step(m)
  IN IF n.done THEN n ELSE comms_can_read_loop(n)

\* comms_can_read_fill that pads the chunk: pos is max_len at the end
comms_can_read_fill_full(m) ==
  LET n == IF m.rb.ptr = 0 THEN comms_can_read_loop(m) ELSE [m EXCEPT !.done = TRUE]
  IN [n EXCEPT !.c.pos = m.c.max_len]

\* "Fill rest of buffer with new data": if (can_read_buffer.ptr == 0U) { while ... }
comms_can_read_fill(m) ==
  IF m.rb.ptr = 0 THEN comms_can_read_loop(m) ELSE [m EXCEPT !.done = TRUE]

\* The whole call on the globals rb (can_read_buffer), wb (can_write_buffer)
\* and q (can_rx_q); the return value is c.pos.
comms_can_read(rb, wb, q, max_len) ==
  comms_can_read_fill(comms_can_read_tail(
    [rb |-> rb, wb |-> wb, q |-> q, c |-> ReadEnter(max_len), done |-> FALSE]))

\* the bytes the caller takes from data: data[0 .. pos-1]
Returned(c) == [i \in 1..c.pos |-> ByteAt(c.data, i)]

\* the bytes waiting in can_read_buffer: data[0 .. ptr-1]
Parked(b) == [i \in 1..b.ptr |-> ByteAt(b.data, i)]

----------------------------------------------------------------------------
(* comms_can_write *)

\* CANPacket_t to_push = {0}: header and the longest payload, all zero
ZeroPacket == [i \in 1..PcktLen(15) |-> 0]

\* the bytes of a CANPacket_t that its own data length code declares
PacketBytes(p) == SubSeq(p, 1, PcktLen(data_len_code(p)))

\* can_send(&to_push, bus_number, false): the packet is handed to the transmit
\* path of that bus, where it takes a free slot if there is one
can_send(m, to_push, bus_number) ==
  [m EXCEPT
     !.c.sent = Append(@, [pkt |-> PacketBytes(to_push), bus |-> bus_number]),
     !.tx_free = IF @ > 0 THEN @ - 1 ELSE @]

\* thresholds of the admission check: free slots for a full USB and a full SPI
\* bulk transfer
MAX_CAN_MSGS_PER_USB_BULK_TRANSFER == 2

MAX_CAN_MSGS_PER_SPI_BULK_TRANSFER == 3

can_tx_check_min_slots_free(free, min) == free >= min

\* refresh_can_tx_slots_available with the two thresholds exchanged
refresh_can_tx_slots_available_swapped(m) ==
  LET usb == can_tx_check_min_slots_free(m.tx_free, MAX_CAN_MSGS_PER_SPI_BULK_TRANSFER)
      spi == can_tx_check_min_slots_free(m.tx_free, MAX_CAN_MSGS_PER_USB_BULK_TRANSFER)
  IN [m EXCEPT
        !.c.refresh = @ + 1,
        !.c.free_at_refresh = m.tx_free,
        !.c.resume_usb = IF usb THEN @ + 1 ELSE @,
        !.c.resume_spi = IF spi THEN @ + 1 ELSE @]

\* refresh_can_tx_slots_available(), the two resume calls counted in the call record
refresh_can_tx_slots_available(m) ==
  LET usb == can_tx_check_min_slots_free(m.tx_free, MAX_CAN_MSGS_PER_USB_BULK_TRANSFER)
      spi == can_tx_check_min_slots_free(m.tx_free, MAX_CAN_MSGS_PER_SPI_BULK_TRANSFER)
  IN [m EXCEPT
        !.c.refresh = @ + 1,
        !.c.free_at_refresh = m.tx_free,
        !.c.resume_usb = IF usb THEN @ + 1 ELSE @,
        !.c.resume_spi = IF spi THEN @ + 1 ELSE @]

\* entry of the call: uint32_t pos = 0U; data holds the len bytes of the transfer.
\* buf_hi is the highest index + 1 touched in can_write_buffer.data, src_hi the
\* highest index + 1 read from data, so far in the call.
\* wrapped, codes_ok and progress as in the read call.
WriteEnter(chunk) ==
  [len |-> Len(chunk), data |-> chunk, pos |-> 0, sent |-> <<>>,
   buf_hi |-> 0, src_hi |-> 0, completed |-> FALSE, appended |-> 0,
   refresh |-> 0, free_at_refresh |-> 0, resume_usb |-> 0, resume_spi |-> 0,
   wrapped |-> FALSE, codes_ok |-> TRUE, progress |-> TRUE]

\* comms_can_write_tail with < for <= in line 86: a transfer that ends with the
\* last byte of the packet does not complete it
comms_can_write_tail_late(m) ==
  LET wb == m.wb
      c == m.c
  IN IF wb.ptr # 0
     THEN IF wb.tail_size < Sub32(c.len, c.pos)
          THEN \* we have enough data to complete the buffer
               LET data == memcpy(wb.data, wb.ptr, c.data, c.pos, wb.tail_size)
                   ptr == Add32(wb.ptr, wb.tail_size)
                   to_push == memcpy(ZeroPacket, 0, data, 0, ptr)
                   m1 == [m EXCEPT
                            !.c.pos = Add32(c.pos, wb.tail_size),
                            !.c.buf_hi = Max(@, ptr),
                            !.c.src_hi = IF wb.tail_size > 0
                                         THEN Max(@, c.pos + wb.tail_size) ELSE @,
                            !.c.completed = TRUE]
               IN [can_send(m1, to_push, bus(to_push)) EXCEPT
                     !.wb = [ptr |-> 0, tail_size |-> 0, data |-> data]]
          ELSE \* maybe next time
               LET data_size == Sub32(c.len, c.pos)
               IN [m EXCEPT
                     !.wb = [ptr |-> Add32(wb.ptr, data_size),
                             tail_size |-> Sub32(wb.tail_size, data_size),
                             data |-> memcpy(wb.data, wb.ptr, c.data, c.pos, data_size)],
                     !.c.pos = Add32(c.pos, data_size),
                     !.c.appended = data_size,
                     !.c.buf_hi = IF data_size > 0
                                  THEN Max(@, wb.ptr + data_size) ELSE @,
                     !.c.src_hi = IF data_size > 0
                                  THEN Max(@, c.pos + data_size) ELSE @]
     ELSE m

\* comms_can_write_tail without line 104: tail_size is not decreased
comms_can_write_tail_keep(m) ==
  LET wb == m.wb
      c == m.c
  IN IF wb.ptr # 0
     THEN IF wb.tail_size <= Sub32(c.len, c.pos)
          THEN \* we have enough data to complete the buffer
               LET data == memcpy(wb.data, wb.ptr, c.data, c.pos, wb.tail_size)
                   ptr == Add32(wb.ptr, wb.tail_size)
                   to_push == memcpy(ZeroPacket, 0, data, 0, ptr)
                   m1 == [m EXCEPT
                            !.c.pos = Add32(c.pos, wb.tail_size),
                            !.c.buf_hi = Max(@, ptr),
                            !.c.src_hi = IF wb.tail_size > 0
                                         THEN Max(@, c.pos + wb.tail_size) ELSE @,
                            !.c.completed = TRUE]
               IN [can_send(m1, to_push, bus(to_push)) EXCEPT
                     !.wb = [ptr |-> 0, tail_size |-> 0, data |-> data]]
          ELSE \* maybe next time
               LET data_size == Sub32(c.len, c.pos)
               IN [m EXCEPT
                     !.wb = [ptr |-> Add32(wb.ptr, data_size),
                             tail_size |-> wb.tail_size,
                             data |-> memcpy(wb.data, wb.ptr, c.data, c.pos, data_size)],
                     !.c.pos = Add32(c.pos, data_size),
                     !.c.appended = data_size,
                     !.c.buf_hi = IF data_size > 0
                                  THEN Max(@, wb.ptr + data_size) ELSE @,
                     !.c.src_hi = IF data_size > 0
                                  THEN Max(@, c.pos + data_size) ELSE @]
     ELSE m

\* "Assembling can message with data from buffer"
comms_can_write_tail(m) ==
  LET wb == m.wb
      c == m.c
  IN IF wb.ptr # 0
     THEN IF wb.tail_size <= Sub32(c.len, c.pos)
          THEN \* we have enough data to complete the buffer
               LET data == memcpy(wb.data, wb.ptr, c.data, c.pos, wb.tail_size)
                   ptr == Add32(wb.ptr, wb.tail_size)
                   to_push == memcpy(ZeroPacket, 0, data, 0, ptr)
                   m1 == [m EXCEPT
                            !.c.pos = Add32(c.pos, wb.tail_size),
                            !.c.buf_hi = Max(@, ptr),
                            !.c.src_hi = IF wb.tail_size > 0
                                         THEN Max(@, c.pos + wb.tail_size) ELSE @,
                            !.c.completed = TRUE,
                            !.c.wrapped = @ \/ c.len < c.pos]
               IN [can_send(m1, to_push, bus(to_push)) EXCEPT
                     !.wb = [ptr |-> 0, tail_size |-> 0, data |-> data]]
          ELSE \* maybe next time
               LET data_size == Sub32(c.len, c.pos)
               IN [m EXCEPT
                     !.wb = [ptr |-> Add32(wb.ptr, data_size),
                             tail_size |-> Sub32(wb.tail_size, data_size),
                             data |-> memcpy(wb.data, wb.ptr, c.data, c.pos, data_size)],
                     !.c.pos = Add32(c.pos, data_size),
                     !.c.appended = data_size,
                     !.c.wrapped = @ \/ c.len < c.pos \/ wb.tail_size < data_size,
                     !.c.buf_hi = IF data_size > 0
                                  THEN Max(@, wb.ptr + data_size) ELSE @,
                     !.c.src_hi = IF data_size > 0
                                  THEN Max(@, c.pos + data_size) ELSE @]
     ELSE m

\* comms_can_write_packet copying one byte less in line 115
comms_can_write_packet_short(m) ==
  LET wb == m.wb
      c == m.c
      pckt_len == PcktLen(ByteAt(c.data, c.pos + 1) \div 16)
  IN IF Add32(c.pos, pckt_len) <= c.len
     THEN LET to_push == memcpy(ZeroPacket, 0, c.data, c.pos, pckt_len - 1)
              m1 == [m EXCEPT
                       !.c.pos = Add32(c.pos, pckt_len),
                       !.c.src_hi = Max(@, c.pos + pckt_len)]
          IN can_send(m1, to_push, bus(to_push))
     ELSE LET ptr == Sub32(c.len, c.pos)
          IN [m EXCEPT
                !.wb = [ptr |-> ptr,
                        tail_size |-> Sub32(pckt_len, ptr),
                        data |-> memcpy(wb.data, 0, c.data, c.pos, ptr)],
                !.c.pos = Add32(c.pos, ptr),
                !.c.buf_hi = Max(@, ptr),
                !.c.src_hi = Max(@, c.pos + ptr)]

\* comms_can_write_packet with < for <= in line 113: a packet that ends with
\* the transfer is not sent
comms_can_write_packet_lt(m) ==
  LET wb == m.wb
      c == m.c
      code == ByteAt(c.data, c.pos + 1) \div 16
      pckt_len == PcktLen(code)
      codes_ok == /\ code + 1 \in DOMAIN dlc_to_len
                  /\ pckt_len \in CANPACKET_HEAD_SIZE..PcktLen(15)
  IN IF Add32(c.pos, pckt_len) < c.len
     THEN LET to_push == memcpy(ZeroPacket, 0, c.data, c.pos, pckt_len)
              m1 == [m EXCEPT
                       !.c.pos = Add32(c.pos, pckt_len),
                       !.c.src_hi = Max(@, c.pos + pckt_len),
                       !.c.codes_ok = @ /\ codes_ok]
          IN can_send(m1, to_push, bus(to_push))
     ELSE LET ptr == Sub32(c.len, c.pos)
          IN [m EXCEPT
                !.wb = [ptr |-> ptr,
                        tail_size |-> Sub32(pckt_len, ptr),
                        data |-> memcpy(wb.data, 0, c.data, c.pos, ptr)],
                !.c.pos = Add32(c.pos, ptr),
                !.c.buf_hi = Max(@, ptr),
                !.c.src_hi = Max(@, c.pos + ptr),
                !.c.codes_ok = @ /\ codes_ok,
                !.c.wrapped = @ \/ c.len < c.pos \/ pckt_len < ptr]

\* comms_can_write_packet with >> 3U for >> 4U in line 112: the index runs to
\* 31, and dlc_to_len read past its end gives the length of some code
comms_can_write_packet_shift3(m) ==
  LET wb == m.wb
      c == m.c
      code == ByteAt(c.data, c.pos + 1) \div 8
      pckt_len == PcktLen(code % 16)
      codes_ok == /\ code + 1 \in DOMAIN dlc_to_len
                  /\ pckt_len \in CANPACKET_HEAD_SIZE..PcktLen(15)
  IN IF Add32(c.pos, pckt_len) <= c.len
     THEN LET to_push == memcpy(ZeroPacket, 0, c.data, c.pos, pckt_len)
              m1 == [m EXCEPT
                       !.c.pos = Add32(c.pos, pckt_len),
                       !.c.src_hi = Max(@, c.pos + pckt_len),
                       !.c.codes_ok = @ /\ codes_ok]
          IN can_send(m1, to_push, bus(to_push))
     ELSE LET ptr == Sub32(c.len, c.pos)
          IN [m EXCEPT
                !.wb = [ptr |-> ptr,
                        tail_size |-> Sub32(pckt_len, ptr),
                        data |-> memcpy(wb.data, 0, c.data, c.pos, ptr)],
                !.c.pos = Add32(c.pos, ptr),
                !.c.buf_hi = Max(@, ptr),
                !.c.src_hi = Max(@, c.pos + ptr),
                !.c.codes_ok = @ /\ codes_ok,
                !.c.wrapped = @ \/ c.len < c.pos \/ pckt_len < ptr]

\* one pass of the loop body of "rest of the message", at pos < len
comms_can_write_packet(m) ==
  LET wb == m.wb
      c == m.c
      code == ByteAt(c.data, c.pos + 1) \div 16
      pckt_len == PcktLen(code)
      codes_ok == /\ code + 1 \in DOMAIN dlc_to_len
                  /\ pckt_len \in CANPACKET_HEAD_SIZE..PcktLen(15)
  IN IF Add32(c.pos, pckt_len) <= c.len
     THEN LET to_push == memcpy(ZeroPacket, 0, c.data, c.pos, pckt_len)
              m1 == [m EXCEPT
                       !.c.pos = Add32(c.pos, pckt_len),
                       !.c.src_hi = Max(@, c.pos + pckt_len),
                       !.c.codes_ok = @ /\ codes_ok]
          IN can_send(m1, to_push, bus(to_push))
     ELSE LET ptr == Sub32(c.len, c.pos)
          IN [m EXCEPT
                !.wb = [ptr |-> ptr,
                        tail_size |-> Sub32(pckt_len, ptr),
                        data |-> memcpy(wb.data, 0, c.data, c.pos, ptr)],
                !.c.pos = Add32(c.pos, ptr),
                !.c.buf_hi = Max(@, ptr),
                !.c.src_hi = Max(@, c.pos + ptr),
                !.c.codes_ok = @ /\ codes_ok,
                !.c.wrapped = @ \/ c.len < c.pos \/ pckt_len < ptr]

\* one evaluation of the loop condition while (pos < len), and the body if it
\* holds; after the loop, refresh_can_tx_slots_available()
comms_can_write_step(m) ==
  IF m.c.pos < m.c.len
  THEN LET n == comms_can_write_packet(m)
       IN [n EXCEPT !.done = FALSE, !.c.progress = @ /\ m.c.pos < n.c.pos]
  ELSE [refresh_can_tx_slots_available(m) EXCEPT !.done = TRUE]

RECURSIVE comms_can_write_loop(_)
comms_can_write_loop(m) ==
  LET n == comms_can_write_step(m)
  IN IF n.done THEN n ELSE comms_can_write_loop(n)

\* The whole call on the globals rb (can_read_buffer), wb (can_write_buffer)
\* and the transmit pool
comms_can_write(rb, wb, free, chunk) ==
  comms_can_write_loop(comms_can_write_tail(
    [rb |-> rb, wb |-> wb, tx_free |-> free, c |-> WriteEnter(chunk), done |-> FALSE]))

\* the bytes assembled so far in can_write_buffer: data[0 .. ptr-1]
Assembled(b) == [i \in 1..b.ptr |-> ByteAt(b.data, i)]

----------------------------------------------------------------------------
(* comms_can_reset *)

\* comms_can_reset without line 132: can_read_buffer.ptr is not cleared
comms_can_reset_keep_read(rb, wb) ==
  [rb |-> [rb EXCEPT !.tail_size = 0],
   wb |-> [wb EXCEPT !.ptr = 0, !.tail_size = 0]]

\* comms_can_reset without line 131: can_write_buffer.tail_size is not cleared
comms_can_reset_keep_tail(rb, wb) ==
  [rb |-> [rb EXCEPT !.ptr = 0, !.tail_size = 0],
   wb |-> [wb EXCEPT !.ptr = 0]]

comms_can_reset(rb, wb) ==
  [rb |-> [rb EXCEPT !.ptr = 0, !.tail_size = 0],
   wb |-> [wb EXCEPT !.ptr = 0, !.tail_size = 0]]

----------------------------------------------------------------------------
(* State and whole calls *)

\* s starts with p
IsPrefix(p, s) == Len(p) <= Len(s) /\ p = SubSeq(s, 1, Len(p))

\* s without its first k elements
Drop(s, k) == SubSeq(s, k + 1, Len(s))

\* what stays of a finished read call: its argument, its return value and
\* what it touched; the caller's buffer is the caller's again
ReadResult(c) == [c EXCEPT !.data = <<>>, !.popped = Len(@)]

\* what stays of a finished write call
WriteResult(c) == [c EXCEPT !.data = <<>>, !.sent = Len(@)]

\* Read direction.  n, nenq: packets and bytes enqueued so far.  owed: the
\* serialized bytes enqueued that the capacities of the read calls made since
\* cannot cover yet.  held: the bytes of popped packets not returned yet, in
\* pop order.  ok: every chunk returned so far was the next bytes of held.
\* nret: bytes returned.  ends: for each packet popped, the bytes popped up
\* to its last byte.  held, ok, nret and ends start again with each session.
NoReadHist == [n |-> 0, nenq |-> 0, owed |-> 0, held |-> <<>>, ok |-> TRUE,
               nret |-> 0, ends |-> <<>>, called |-> FALSE]

\* Write direction.  unsent: the bytes written and not yet part of a sent
\* packet.  ok: the packets sent so far were, in order, the next bytes
\* written.  nbytes: bytes written.  nsent: packets sent.  as_host: the
\* packets sent so far were, in order, the host's packets, each on the bus of
\* its byte 0.  single: every call so far had len 1.  free_after: the free
\* slots when the last call returned.  prev_usb, prev_spi: the resume calls
\* of the call before the last.  All start again with each session.
NoWriteHist == [unsent |-> <<>>, ok |-> TRUE, nbytes |-> 0, nsent |-> 0,
                as_host |-> TRUE, single |-> TRUE, free_after |-> 0,
                prev_usb |-> 0, prev_spi |-> 0, called |-> FALSE]

NoConc == [rd |-> <<>>, wr |-> <<>>, overlap |-> FALSE]

\* static asm_buffer can_read_buffer = {.ptr = 0U, .tail_size = 0U}, the same
\* for can_write_buffer; the queues are empty and every transmit slot is free
Init ==
  /\ can_read_buffer = EmptyBuffer
  /\ can_write_buffer = EmptyBuffer
  /\ can_rx_q = <<>>
  /\ tx_free = TxPool
  /\ rd = ReadResult(ReadEnter(0))
  /\ rd_hist = NoReadHist
  /\ wr = WriteResult(WriteEnter(<<>>))
  /\ wr_hist = NoWriteHist
  /\ host = [frames |-> <<>>, pending |-> <<>>, n |-> 0]
  /\ sess = [was_reset |-> FALSE, rd_cut |-> FALSE, wr_cut |-> FALSE, dir |-> "both", resets |-> 0]
  /\ pc = [rd |-> "idle", wr |-> "idle"]
  /\ conc = NoConc

\* The CAN receive path enqueues a packet
CanRx(limit, dlcs) ==
  /\ pc.rd = "idle"
  /\ rd_hist.n < limit
  /\ \E dlc \in dlcs :
       LET f == MkFrame(dlc, rd_hist.n + 1)
       IN /\ can_rx_q' = Append(can_rx_q, f)
          /\ rd_hist' = [rd_hist EXCEPT !.n = @ + 1, !.nenq = @ + Len(f),
                                        !.owed = @ + Len(f)]
  /\ UNCHANGED <<can_read_buffer, can_write_buffer, tx_free, rd, wr, wr_hist,
                 host, sess, pc, conc>>

\* the entries of ends for the packets pkts, popped after those of ends
RECURSIVE PoppedEnds(_, _)
PoppedEnds(ends, pkts) ==
  IF pkts = <<>> THEN <<>>
  ELSE LET e == (IF ends = <<>> THEN 0 ELSE ends[Len(ends)]) + Len(Head(pkts))
       IN <<e>> \o PoppedEnds(<<e>>, Tail(pkts))

\* the read history after a call that ended with locals c
ReadObserved(h, c) ==
  LET expected == h.held \o Concat(c.popped)
      ret == Returned(c)
  IN [h EXCEPT
        !.held = IF IsPrefix(ret, expected) THEN Drop(expected, Len(ret)) ELSE expected,
        !.ok = @ /\ IsPrefix(ret, expected),
        !.nret = @ + Len(ret),
        !.ends = @ \o PoppedEnds(@, c.popped),
        !.owed = Max(0, @ - c.max_len),
        !.called = TRUE]

\* The transport calls comms_can_read(data, max_len) and takes data[0 .. pos-1]
Read(lens) ==
  /\ pc.rd = "idle"
  /\ \E max_len \in lens :
       \E m \in {comms_can_read(can_read_buffer, can_write_buffer, can_rx_q, max_len)} :
          /\ can_read_buffer' = m.rb
          /\ can_write_buffer' = m.wb
          /\ can_rx_q' = m.q
          /\ rd' = ReadResult(m.c)
          /\ rd_hist' = ReadObserved(rd_hist, m.c)
  /\ UNCHANGED <<tx_free, wr, wr_hist, host, sess, pc, conc>>

\* The host serialises one more packet into its outgoing stream
HostQueue(limit, dlcs) ==
  /\ host.n < limit
  /\ \E dlc \in dlcs :
       LET f == MkFrame(dlc, host.n + 1)
       IN host' = [frames |-> Append(host.frames, f), pending |-> host.pending \o f,
                   n |-> host.n + 1]
  /\ UNCHANGED <<can_read_buffer, can_write_buffer, can_rx_q, tx_free, rd, rd_hist,
                 wr, wr_hist, sess, pc, conc>>

\* the write history after a call that ended with locals c and free slots free
WriteObserved(h, c, free) ==
  LET expected == h.unsent \o c.data
      out == Concat([i \in 1..Len(c.sent) |-> c.sent[i].pkt])
  IN [h EXCEPT
        !.unsent = IF IsPrefix(out, expected) THEN Drop(expected, Len(out)) ELSE expected,
        !.ok = @ /\ IsPrefix(out, expected),
        !.nbytes = @ + c.len,
        !.nsent = @ + Len(c.sent),
        !.as_host = @ /\ \A i \in 1..Len(c.sent) :
                           /\ h.nsent + i <= Len(host.frames)
                           /\ c.sent[i].pkt = host.frames[h.nsent + i]
                           /\ c.sent[i].bus = bus(host.frames[h.nsent + i]),
        !.single = @ /\ c.len = 1,
        !.free_after = free,
        !.prev_usb = wr.resume_usb,
        !.prev_spi = wr.resume_spi,
        !.called = TRUE]

\* The transfer the transport makes of the host's stream when it can carry
\* cap bytes: the next bytes of the stream, cap of them at most
Transfer(cap) == SubSeq(host.pending, 1, MIN(cap, Len(host.pending)))

\* The transport calls comms_can_write(data, len) with the next transfer
Write(lens) ==
  /\ pc.wr = "idle"
  /\ \E cap \in lens :
       \E m \in {comms_can_write(can_read_buffer, can_write_buffer, tx_free,
                                Transfer(cap))} :
          /\ can_read_buffer' = m.rb
          /\ can_write_buffer' = m.wb
          /\ tx_free' = m.tx_free
          /\ wr' = WriteResult(m.c)
          /\ wr_hist' = WriteObserved(wr_hist, m.c, m.tx_free)
          /\ host' = [host EXCEPT !.pending = Drop(@, Len(Transfer(cap)))]
  /\ UNCHANGED <<can_rx_q, rd, rd_hist, sess, pc, conc>>

\* The CAN transmit path completes a transmission: a slot of the pool is free again
TxDone ==
  /\ pc.wr = "idle"
  /\ tx_free < TxPool
  /\ tx_free' = tx_free + 1
  /\ UNCHANGED <<can_read_buffer, can_write_buffer, can_rx_q, rd, rd_hist, wr,
                 wr_hist, host, sess, pc, conc>>

\* The control transfer handler calls comms_can_reset() at the start of a
\* connection; a new session starts.  The host goes on with the stream it has,
\* or drops it and starts with its next packet.
Reset ==
  /\ pc.rd = "idle" /\ pc.wr = "idle"
  /\ sess.resets < MaxResets
  /\ LET r == comms_can_reset(can_read_buffer, can_write_buffer)
     IN /\ can_read_buffer' = r.rb
        /\ can_write_buffer' = r.wb
  /\ rd_hist' = [NoReadHist EXCEPT !.n = rd_hist.n, !.nenq = rd_hist.nenq]
  /\ wr_hist' = NoWriteHist
  /\ sess' = [sess EXCEPT !.was_reset = TRUE,
                          !.resets = @ + 1,
                          !.rd_cut = can_read_buffer.ptr > 0,
                          !.wr_cut = can_write_buffer.ptr > 0]
  /\ \/ host' = host
     \/ host.pending # <<>> /\ host' = [frames |-> <<>>, pending |-> <<>>, n |-> host.n]
  /\ UNCHANGED <<can_rx_q, tx_free, rd, wr, pc, conc>>

\* the device -> host direction
NextRead == CanRx(MaxRxFrames, FrameDlcs) \/ Read(ReadLens)

SpecRead == Init /\ [][NextRead]_vars

\* the host -> device direction
NextWrite == HostQueue(MaxTxFrames, FrameDlcs) \/ Write(WriteLens) \/ TxDone

SpecWrite == Init /\ [][NextWrite]_vars

----------------------------------------------------------------------------
(* Sessions: one direction at a time, with resets between the calls *)

InitSession ==
  \E d \in {"read", "write"} :
    /\ can_read_buffer = EmptyBuffer
    /\ can_write_buffer = EmptyBuffer
    /\ can_rx_q = <<>>
    /\ tx_free = TxPool
    /\ rd = ReadResult(ReadEnter(0))
    /\ rd_hist = NoReadHist
    /\ wr = WriteResult(WriteEnter(<<>>))
    /\ wr_hist = NoWriteHist
    /\ host = [frames |-> <<>>, pending |-> <<>>, n |-> 0]
    /\ sess = [was_reset |-> FALSE, rd_cut |-> FALSE, wr_cut |-> FALSE, dir |-> d, resets |-> 0]
    /\ pc = [rd |-> "idle", wr |-> "idle"]
    /\ conc = NoConc

SessRx == sess.dir = "read" /\ CanRx(MaxSessRxFrames, SessRxDlcs)

SessRead == sess.dir = "read" /\ Read(SessLens)

SessQueue == sess.dir = "write" /\ HostQueue(MaxSessFrames, SessDlcs)

SessWrite == sess.dir = "write" /\ Write(SessLens)

NextSession == SessRx \/ SessRead \/ SessQueue \/ SessWrite \/ Reset

SpecSession == InitSession /\ [][NextSession]_vars

----------------------------------------------------------------------------
(* The two directions on separate execution contexts: a read call and a      *)
(* write call each advance one step at a time, in any order                  *)

\* the read call as it stands: the globals and the locals of the call
ReadMachine == [rb |-> can_read_buffer, wb |-> can_write_buffer, q |-> can_rx_q,
                c |-> rd, done |-> FALSE]

\* the write call as it stands
WriteMachine == [rb |-> can_read_buffer, wb |-> can_write_buffer, tx_free |-> tx_free,
                 c |-> wr, done |-> FALSE]

\* comms_can_read is entered.  conc.rd is what the call returns and leaves
\* behind if it runs alone from here.
ReadBegin ==
  /\ pc.rd = "idle"
  /\ \E max_len \in ConcLens :
       \E m \in {comms_can_read(can_read_buffer, can_write_buffer, can_rx_q, max_len)} :
          /\ rd' = ReadEnter(max_len)
          /\ conc' = [conc EXCEPT
                        !.rd = [ret |-> Returned(m.c), rb |-> m.rb, q |-> m.q],
                        !.overlap = pc.wr # "idle"]
  /\ pc' = [pc EXCEPT !.rd = "tail"]
  /\ UNCHANGED <<can_read_buffer, can_write_buffer, can_rx_q, tx_free, rd_hist,
                 wr, wr_hist, host, sess>>

\* lines 49-57: the tail of the previous packet, and the test of ptr after it
ReadTailStep ==
  /\ pc.rd = "tail"
  /\ \E m \in {comms_can_read_tail(ReadMachine)} :
       /\ can_read_buffer' = m.rb
       /\ can_write_buffer' = m.wb
       /\ rd' = m.c
       /\ pc' = [pc EXCEPT !.rd = IF m.rb.ptr = 0 THEN "loop" ELSE "ret"]
  /\ UNCHANGED <<can_rx_q, tx_free, rd_hist, wr, wr_hist, host, sess, conc>>

\* lines 60-72: one test of the loop condition, and the body if it holds
ReadLoopStep ==
  /\ pc.rd = "loop"
  /\ \E m \in {comms_can_read_step(ReadMachine)} :
       /\ can_read_buffer' = m.rb
       /\ can_write_buffer' = m.wb
       /\ can_rx_q' = m.q
       /\ rd' = m.c
       /\ pc' = [pc EXCEPT !.rd = IF m.done THEN "ret" ELSE "loop"]
  /\ UNCHANGED <<tx_free, rd_hist, wr, wr_hist, host, sess, conc>>

\* line 75: return pos
ReadReturn ==
  /\ pc.rd = "ret"
  /\ rd' = ReadResult(rd)
  /\ rd_hist' = ReadObserved(rd_hist, rd)
  /\ pc' = [pc EXCEPT !.rd = "idle"]
  /\ UNCHANGED <<can_read_buffer, can_write_buffer, can_rx_q, tx_free, wr, wr_hist,
                 host, sess, conc>>

\* comms_can_write is entered with the next len bytes of the host's stream.
\* conc.wr is what the call sends and leaves behind if it runs alone from here.
WriteBegin ==
  /\ pc.wr = "idle"
  /\ \E cap \in ConcLens :
       \E m \in {comms_can_write(can_read_buffer, can_write_buffer, tx_free,
                                Transfer(cap))} :
          /\ wr' = WriteEnter(Transfer(cap))
          /\ conc' = [conc EXCEPT
                        !.wr = [sent |-> m.c.sent, wb |-> m.wb, tx_free |-> m.tx_free],
                        !.overlap = pc.rd # "idle"]
          /\ host' = [host EXCEPT !.pending = Drop(@, Len(Transfer(cap)))]
  /\ pc' = [pc EXCEPT !.wr = "tail"]
  /\ UNCHANGED <<can_read_buffer, can_write_buffer, can_rx_q, tx_free, rd, rd_hist,
                 wr_hist, sess>>

\* lines 85-108: the packet waiting in the overflow buffer
WriteTailStep ==
  /\ pc.wr = "tail"
  /\ \E m \in {comms_can_write_tail(WriteMachine)} :
       /\ can_read_buffer' = m.rb
       /\ can_write_buffer' = m.wb
       /\ tx_free' = m.tx_free
       /\ wr' = m.c
  /\ pc' = [pc EXCEPT !.wr = "loop"]
  /\ UNCHANGED <<can_rx_q, rd, rd_hist, wr_hist, host, sess, conc>>

\* lines 111-126: one test of the loop condition, and the body if it holds;
\* refresh_can_tx_slots_available() when it does not
WriteLoopStep ==
  /\ pc.wr = "loop"
  /\ \E m \in {comms_can_write_step(WriteMachine)} :
       /\ can_read_buffer' = m.rb
       /\ can_write_buffer' = m.wb
       /\ tx_free' = m.tx_free
       /\ wr' = m.c
       /\ pc' = [pc EXCEPT !.wr = IF m.done THEN "ret" ELSE "loop"]
  /\ UNCHANGED <<can_rx_q, rd, rd_hist, wr_hist, host, sess, conc>>

\* line 127: the call returns
WriteReturn ==
  /\ pc.wr = "ret"
  /\ wr' = WriteResult(wr)
  /\ wr_hist' = WriteObserved(wr_hist, wr, tx_free)
  /\ pc' = [pc EXCEPT !.wr = "idle"]
  /\ UNCHANGED <<can_read_buffer, can_write_buffer, can_rx_q, tx_free, rd, rd_hist,
                 host, sess, conc>>

NextConc ==
  \/ CanRx(MaxConcFrames, ConcDlcs)
  \/ HostQueue(MaxConcFrames, ConcDlcs)
  \/ ReadBegin \/ ReadTailStep \/ ReadLoopStep \/ ReadReturn
  \/ WriteBegin \/ WriteTailStep \/ WriteLoopStep \/ WriteReturn

SpecConc == Init /\ [][NextConc]_vars

----------------------------------------------------------------------------
(* The device -> host direction with a transport that keeps reading *)

\* packets enqueued in a run of the fair specification
MaxFairFrames == 2

\* their length codes: the shortest packet and the longest
FairDlcs == {0, 15}

NextFair == CanRx(MaxFairFrames, FairDlcs) \/ Read(ReadLens)

\* The transport keeps calling comms_can_read: there is always a further call.
\* In every state some call changes the state (one of the other capacity
\* does), so this is weak fairness of Read with its ENABLED written out.
SpecReadFair == Init /\ [][NextFair]_vars /\ []<><<Read(ReadLens)>>_vars

----------------------------------------------------------------------------
(* Either direction, without resets, the capacity 0 included *)

\* capacities the transport passes to comms_can_read, none among them; 12
\* leaves 58 bytes of the longest packet parked, which with a packet of 6
\* bytes fill a transfer of 64
EitherLens == {0, 12, 64}

EitherRx == sess.dir = "read" /\ CanRx(MaxRxFrames, FairDlcs)

EitherRead == sess.dir = "read" /\ Read(EitherLens)

EitherQueue == sess.dir = "write" /\ HostQueue(MaxTxFrames, FrameDlcs)

EitherWrite == sess.dir = "write" /\ Write(WriteLens)

EitherTxDone == sess.dir = "write" /\ TxDone

NextEither == EitherRx \/ EitherRead \/ EitherQueue \/ EitherWrite \/ EitherTxDone

SpecEither == InitSession /\ [][NextEither]_vars

----------------------------------------------------------------------------
(* One packet whose byte 0 is any byte *)

\* the values of byte 0
FirstBytes == 0..255

\* capacities and transfer lengths
ByteLens == {1, 64}

\* the packet with byte 0 = b: the length of its code, the other bytes set by
\* their place and by b
MkRaw(b) ==
  [j \in 1..PcktLen(b \div 16) |-> IF j = 1 THEN b ELSE (j * 37 + b) % 256]

\* the packet waits in can_rx_q, or it is the host's stream
InitBytes ==
  \E d \in {"read", "write"}, b \in FirstBytes :
    /\ can_read_buffer = EmptyBuffer
    /\ can_write_buffer = EmptyBuffer
    /\ can_rx_q = IF d = "read" THEN <<MkRaw(b)>> ELSE <<>>
    /\ tx_free = TxPool
    /\ rd = ReadResult(ReadEnter(0))
    /\ rd_hist = IF d = "read"
                 THEN [NoReadHist EXCEPT !.n = 1, !.nenq = Len(MkRaw(b)),
                                         !.owed = Len(MkRaw(b))]
                 ELSE NoReadHist
    /\ wr = WriteResult(WriteEnter(<<>>))
    /\ wr_hist = NoWriteHist
    /\ host = IF d = "write"
              THEN [frames |-> <<MkRaw(b)>>, pending |-> MkRaw(b), n |-> 1]
              ELSE [frames |-> <<>>, pending |-> <<>>, n |-> 0]
    /\ sess = [was_reset |-> FALSE, rd_cut |-> FALSE, wr_cut |-> FALSE, dir |-> d, resets |-> 0]
    /\ pc = [rd |-> "idle", wr |-> "idle"]
    /\ conc = NoConc

ByteRead == sess.dir = "read" /\ Read(ByteLens)

ByteWrite == sess.dir = "write" /\ Write(ByteLens)

NextBytes == ByteRead \/ ByteWrite

SpecBytes == InitBytes /\ [][NextBytes]_vars

----------------------------------------------------------------------------
(* Properties *)

\* the bytes of all packets popped so far
PoppedBytes == IF rd_hist.ends = <<>> THEN 0 ELSE rd_hist.ends[Len(rd_hist.ends)]

\* the packets of frames that lie entirely within the first nbytes bytes of
\* their serialization
RECURSIVE FramesWithin(_, _)
FramesWithin(frames, nbytes) ==
  IF frames = <<>> \/ Len(Head(frames)) > nbytes THEN 0
  ELSE 1 + FramesWithin(Tail(frames), nbytes - Len(Head(frames)))

\* C1: chunking invariance of comms_can_read.  Whatever the capacities of the
\* read calls, the chunks returned so far are, in order, the first bytes of
\* the serialization of the packets enqueued; no enqueued byte is anywhere but
\* returned, parked or still queued; and once the capacities of the calls add
\* up to the bytes enqueued, all of them have been returned.
ChunkingInvariance ==
  /\ rd_hist.ok
  /\ rd_hist.held = Parked(can_read_buffer)
  /\ rd_hist.nret + Len(rd_hist.held) + Len(Concat(can_rx_q)) = rd_hist.nenq
  /\ rd_hist.owed = 0 =>
       /\ rd_hist.nret = rd_hist.nenq
       /\ can_read_buffer.ptr = 0
       /\ can_rx_q = <<>>

\* two packets, one of them of 70 bytes, have been read to the last byte,
\* which a call of capacity 1 took from the overflow buffer
ChunkingInvarianceSeen ==
  /\ rd_hist.n = 2
  /\ rd_hist.nenq > PcktLen(15)
  /\ rd_hist.owed = 0
  /\ rd_hist.nret = rd_hist.nenq
  /\ rd.max_len = 1
  /\ rd.pos = 1
  /\ rd.popped = 0

\* C2: reassembly of comms_can_write.  However the host's serialized packets
\* are cut into write calls, the packets given to can_send are, in order, the
\* host's packets, byte for byte, each on the bus of its byte 0; none is sent
\* that the host did not write, and all are sent once the whole stream has
\* been written.
ReassemblyCorrect ==
  /\ wr_hist.as_host
  /\ wr_hist.ok
  /\ wr_hist.nsent <= Len(host.frames)
  /\ host.pending = <<>> => wr_hist.nsent = Len(host.frames)

\* two packets on different buses were written and sent, the last call
\* carrying one byte
ReassemblyCorrectSeen ==
  /\ wr_hist.nsent = 2
  /\ Len(host.frames) = 2
  /\ Len(host.frames[2]) > CANPACKET_HEAD_SIZE
  /\ bus(host.frames[1]) # bus(host.frames[2])
  /\ wr.len = 1
  /\ wr.sent = 1

\* C3: comms_can_read stores no byte at or beyond data[max_len], and pos stays
\* within 0 .. max_len.
ReadWithinCapacity ==
  /\ rd.dst_hi <= rd.max_len
  /\ 0 <= rd.pos
  /\ rd.pos <= rd.max_len

\* a call of capacity 1 popped a packet, stored its first byte and parked the rest
ReadWithinCapacitySeen ==
  /\ rd.max_len = 1
  /\ rd.popped = 1
  /\ rd.dst_hi = 1
  /\ can_read_buffer.ptr = PcktLen(15) - 1

\* C4: comms_can_write gives a packet to can_send in the call that delivers
\* its last byte, not before and not after: after every call the packets
\* sent are those whose last byte has been written, and the call sent those
\* whose last byte it carried.
NoEarlyNoLateSubmission ==
  /\ wr_hist.nsent = FramesWithin(host.frames, wr_hist.nbytes)
  /\ wr.sent = FramesWithin(host.frames, wr_hist.nbytes)
                 - FramesWithin(host.frames, wr_hist.nbytes - wr.len)

\* a packet of 70 bytes written by 70 calls of one byte was sent in the 70th
NoEarlyNoLateSubmissionSeen ==
  /\ wr_hist.single
  /\ wr_hist.nbytes = PcktLen(15)
  /\ Len(host.frames[1]) = PcktLen(15)
  /\ wr_hist.nsent = 1
  /\ wr.sent = 1

\* C5: in any sequence of read, write and reset calls no access to the data
\* of an overflow buffer is at or beyond index 72; can_read_buffer.ptr is at
\* most 69 and can_write_buffer.ptr + tail_size at most 70.
NoBufferOverrun ==
  /\ rd.buf_hi <= BUF_SIZE
  /\ wr.buf_hi <= BUF_SIZE
  /\ can_read_buffer.ptr <= PcktLen(15) - 1
  /\ can_write_buffer.ptr + can_write_buffer.tail_size <= PcktLen(15)

\* after a reset, a byte of the host's stream taken for a header announced a
\* packet of 70 bytes, and its assembly is under way
NoBufferOverrunSeen ==
  /\ sess.was_reset
  /\ can_write_buffer.ptr > 1
  /\ can_write_buffer.ptr + can_write_buffer.tail_size = PcktLen(15)

\* C6: comms_can_reset discards the partial packets of both directions.
\* After a reset the read calls return only bytes of packets popped since,
\* the packets sent are made only of bytes written since, and the bytes being
\* assembled start with a byte 0: the first of them gives the length.
ResetDiscardsPartial ==
  sess.was_reset =>
    /\ rd_hist.ok
    /\ rd_hist.held = Parked(can_read_buffer)
    /\ wr_hist.ok
    /\ wr_hist.unsent = Assembled(can_write_buffer)
    /\ can_write_buffer.ptr > 0 =>
         can_write_buffer.ptr + can_write_buffer.tail_size
           = PcktLen(wr_hist.unsent[1] \div 16)

\* a reset cut a packet being assembled, and a packet was sent after it
ResetDiscardsPartialSeen ==
  /\ sess.was_reset
  /\ sess.wr_cut
  /\ wr_hist.nsent > 0

\* C7: with a transport that keeps reading, every byte of every packet
\* popped is returned, once and in the order popped: the chunks returned are
\* the next bytes popped, what was returned and what is parked make up what
\* was popped, and again and again all the bytes popped so far have been
\* returned.
EveryPoppedByteDelivered ==
  /\ [](/\ rd_hist.ok
        /\ rd_hist.held = Parked(can_read_buffer)
        /\ rd_hist.nret + Len(rd_hist.held) = PoppedBytes)
  /\ []<>(rd_hist.nret = PoppedBytes)

\* the first packet popped was returned and bytes of the second are parked
EveryPoppedByteDeliveredSeen ==
  /\ Len(rd_hist.ends) = 2
  /\ can_read_buffer.ptr > 0
  /\ rd_hist.nret > rd_hist.ends[1]

\* C8: the steps of comms_can_read leave can_write_buffer as it is, those of
\* comms_can_write leave can_read_buffer as it is, and in every interleaving
\* of the steps of a read call and a write call each call ends with what it
\* gives when it runs alone.
DirectionsIndependent ==
  /\ [](/\ pc.rd = "ret" =>
            /\ Returned(rd) = conc.rd.ret
            /\ can_read_buffer = conc.rd.rb
            /\ can_rx_q = conc.rd.q
        /\ pc.wr = "ret" =>
            /\ wr.sent = conc.wr.sent
            /\ can_write_buffer = conc.wr.wb
            /\ tx_free = conc.wr.tx_free)
  /\ [][ReadTailStep \/ ReadLoopStep => can_write_buffer' = can_write_buffer]_vars
  /\ [][WriteTailStep \/ WriteLoopStep => can_read_buffer' = can_read_buffer]_vars

\* a read call and a write call ran at the same time; the read returned bytes
\* and the write sent a packet
DirectionsIndependentSeen ==
  /\ conc.overlap
  /\ pc.rd = "ret"
  /\ pc.wr = "ret"
  /\ rd.pos > 0
  /\ Len(wr.sent) > 0

\* C9: a call of comms_can_read returns fewer than max_len bytes only if
\* can_pop found the queue empty in that call, and then nothing is parked.
ShortReadMeansEmpty ==
  (rd_hist.called /\ rd.pos < rd.max_len) =>
    /\ rd.pop_empty
    /\ can_read_buffer.ptr = 0

\* a call returned two packets, and fewer bytes than max_len
ShortReadMeansEmptySeen ==
  /\ rd_hist.called
  /\ rd.pos > 0
  /\ rd.pos < rd.max_len
  /\ rd.popped = 2

\* C10: every call of comms_can_write ends with one admission check on the
\* free slots as they are then: the USB resume is called if and only if they
\* are at least the USB threshold, the SPI resume if and only if they are at
\* least the SPI threshold.
AdmissionLevelTriggered ==
  wr_hist.called =>
    /\ wr.refresh = 1
    /\ wr.free_at_refresh = wr_hist.free_after
    /\ wr.resume_usb = (IF wr_hist.free_after >= MAX_CAN_MSGS_PER_USB_BULK_TRANSFER
                        THEN 1 ELSE 0)
    /\ wr.resume_spi = (IF wr_hist.free_after >= MAX_CAN_MSGS_PER_SPI_BULK_TRANSFER
                        THEN 1 ELSE 0)

\* the free slots went from below the USB threshold to it between two calls,
\* and the second, which sent nothing, called the USB resume and not the SPI one
AdmissionLevelTriggeredSeen ==
  /\ wr_hist.nsent = 2
  /\ wr.sent = 0
  /\ wr_hist.prev_usb = 0
  /\ wr.resume_usb = 1
  /\ wr.resume_spi = 0

\* the bytes of the first j packets of frames
RECURSIVE FrameEnd(_, _)
FrameEnd(frames, j) ==
  IF j = 0 \/ frames = <<>> THEN 0
  ELSE Len(Head(frames)) + FrameEnd(Tail(frames), j - 1)

\* C11: exact fit.  A packet popped in a call of comms_can_read that ends
\* where the room of data ends is returned whole by that call, the last
\* popped in it, and leaves can_read_buffer.ptr = 0; a packet whose last byte
\* is the last byte of a transfer of comms_can_write is sent by that call and
\* leaves can_write_buffer.ptr = 0 and tail_size = 0.
ExactFitCompletes ==
  /\ \A k \in 1..Len(rd_hist.ends) :
       (/\ k > Len(rd_hist.ends) - rd.popped
        /\ rd_hist.ends[k] = rd_hist.nret - rd.pos + rd.max_len)
       => /\ k = Len(rd_hist.ends)
          /\ rd.pos = rd.max_len
          /\ rd_hist.nret = rd_hist.ends[k]
          /\ can_read_buffer.ptr = 0
  /\ \A j \in 1..Len(host.frames) :
       FrameEnd(host.frames, j) = wr_hist.nbytes
       => /\ wr_hist.nsent = j
          /\ can_write_buffer.ptr = 0
          /\ can_write_buffer.tail_size = 0

\* a call of capacity 64 took 58 parked bytes and then popped a packet of 6
\* bytes, which filled data to the last byte
ExactFitCompletesSeen ==
  /\ rd.max_len = 64
  /\ rd.pos = 64
  /\ rd.popped = 1
  /\ Len(rd_hist.ends) = 2
  /\ rd_hist.ends[2] - rd_hist.ends[1] = CANPACKET_HEAD_SIZE
  /\ rd_hist.nret = rd_hist.ends[2]
  /\ can_read_buffer.ptr = 0

\* C12, as stated: with can_rx_q empty, comms_can_read with capacity 64
\* returns 0 and leaves both overflow buffers and the queue as they are.
StarvedReadReturnsNothing ==
  [][(can_rx_q = <<>> /\ rd'.max_len = 64 /\ Read(ReadLens))
     => /\ rd'.pos = 0
        /\ can_read_buffer' = can_read_buffer
        /\ can_write_buffer' = can_write_buffer
        /\ can_rx_q' = can_rx_q]_vars

\* C12, amended: with can_rx_q empty and nothing parked in can_read_buffer,
\* comms_can_read with capacity 64 returns 0 and leaves both overflow buffers
\* and the queue as they are.
StarvedReadWithoutTail ==
  [][(can_rx_q = <<>> /\ can_read_buffer.ptr = 0 /\ rd'.max_len = 64
                       /\ Read(ReadLens))
     => /\ rd'.pos = 0
        /\ can_read_buffer' = can_read_buffer
        /\ can_write_buffer' = can_write_buffer
        /\ can_rx_q' = can_rx_q]_vars

\* after bytes were returned, a call of capacity 64 found the queue empty and
\* nothing parked, and returned 0
StarvedReadWithoutTailSeen ==
  /\ rd_hist.called
  /\ rd_hist.nret > 0
  /\ rd_hist.nret = rd_hist.nenq
  /\ rd.max_len = 64
  /\ rd.pos = 0
  /\ rd.pop_empty

\* C13: comms_can_reset leaves ptr = 0 and tail_size = 0 in both buffers, a
\* reset of what it leaves changes nothing, and it touches neither the queue
\* nor the transmit pool nor what the calls returned, sent and signalled.
ResetIdempotent ==
  [][Reset
     => /\ can_read_buffer'.ptr = 0 /\ can_read_buffer'.tail_size = 0
        /\ can_write_buffer'.ptr = 0 /\ can_write_buffer'.tail_size = 0
        /\ comms_can_reset(can_read_buffer', can_write_buffer')
             = [rb |-> can_read_buffer', wb |-> can_write_buffer']
        /\ can_rx_q' = can_rx_q
        /\ tx_free' = tx_free
        /\ rd' = rd
        /\ wr' = wr]_vars

\* a reset has just cleared a buffer in which a packet was being assembled
ResetIdempotentSeen ==
  /\ sess.was_reset
  /\ sess.wr_cut
  /\ ~wr_hist.called
  /\ can_write_buffer.ptr = 0
  /\ can_write_buffer.tail_size = 0

\* C14: one slot on the read side.  A call whose capacity is below the bytes
\* parked returns that many bytes, pops nothing and leaves the rest at the
\* front of the buffer in their order; a call pops only if the parked bytes
\* fit below its capacity; and when bytes are parked by a call that popped,
\* they are the end of the last packet it popped, ptr their number.
SingleSlotRead ==
  [][EitherRead
     => /\ can_read_buffer.ptr > rd'.max_len
           => /\ rd'.pos = rd'.max_len
              /\ rd'.popped = 0
              /\ Parked(can_read_buffer') = Drop(Parked(can_read_buffer), rd'.max_len)
        /\ rd'.popped > 0 => can_read_buffer.ptr < rd'.max_len
        /\ can_rx_q' = Drop(can_rx_q, rd'.popped)
        /\ (rd'.popped > 0 /\ can_read_buffer'.ptr > 0)
           => /\ can_read_buffer'.ptr < Len(can_rx_q[rd'.popped])
              /\ Parked(can_read_buffer')
                   = Drop(can_rx_q[rd'.popped],
                          Len(can_rx_q[rd'.popped]) - can_read_buffer'.ptr)]_vars

\* a call of capacity 12 took 12 of the parked bytes, left more of them
\* and popped nothing while a packet waited
SingleSlotReadSeen ==
  /\ rd.max_len = 12
  /\ rd.pos = 12
  /\ rd.popped = 0
  /\ can_read_buffer.ptr > 12
  /\ can_rx_q # <<>>

\* C15: between calls, when can_write_buffer.ptr > 0, ptr + tail_size is
\* 6 + dlc_to_len[data[0] >> 4]; and a call that brings fewer bytes than
\* tail_size appends them all, takes their number from tail_size, adds it to
\* ptr and sends nothing.
WriteLengthInvariant ==
  /\ [](can_write_buffer.ptr > 0
        => can_write_buffer.ptr + can_write_buffer.tail_size
             = PcktLen(can_write_buffer.data[1] \div 16))
  /\ [][(can_write_buffer.ptr > 0 /\ wr'.len < can_write_buffer.tail_size
                                    /\ Write(WriteLens))
        => /\ can_write_buffer'.ptr = can_write_buffer.ptr + wr'.len
           /\ can_write_buffer'.tail_size = can_write_buffer.tail_size - wr'.len
           /\ wr'.sent = 0
           /\ wr'.appended = wr'.len
           /\ SubSeq(Assembled(can_write_buffer'), 1, can_write_buffer.ptr)
                = Assembled(can_write_buffer)
           /\ Assembled(can_write_buffer') = wr_hist'.unsent]_vars

\* a call of one byte added it to a packet under assembly
WriteLengthInvariantSeen ==
  /\ can_write_buffer.ptr > 2
  /\ can_write_buffer.tail_size > 0
  /\ wr.len = 1
  /\ wr.appended = 1
  /\ wr.sent = 0

\* C16: whatever byte 0 of a packet is, of the 256 values, the index into
\* dlc_to_len is within 0 .. 15 and the length computed within 6 .. 70, in
\* comms_can_read and in comms_can_write.
LengthIndexInRange ==
  /\ rd.codes_ok
  /\ wr.codes_ok
  /\ can_write_buffer.ptr > 0
     => can_write_buffer.ptr + can_write_buffer.tail_size
          \in CANPACKET_HEAD_SIZE..PcktLen(15)
  /\ can_read_buffer.ptr < PcktLen(15)

\* the packet with byte 0 = 255 was written and sent
LengthIndexInRangeSeen ==
  /\ Len(host.frames) = 1
  /\ host.frames[1][1] = 255
  /\ wr_hist.nsent = 1
  /\ wr_hist.as_host

\* C17: every pass of the loop of comms_can_write and of comms_can_read
\* leaves pos higher than it found it and not beyond len or max_len, and
\* comms_can_write ends with pos = len.
LoopsProgress ==
  /\ rd.progress
  /\ rd.pos <= rd.max_len
  /\ wr.progress
  /\ wr.pos = wr.len

\* a call of comms_can_write passed the loop twice and sent two packets
LoopsProgressSeen ==
  /\ wr.sent = 2
  /\ wr.pos = wr.len
  /\ can_write_buffer.ptr = 0

\* C18: between calls, after any writes and resets, can_write_buffer.ptr > 0
\* exactly when can_write_buffer.tail_size > 0.
WriteCountersConsistent ==
  (can_write_buffer.ptr > 0) <=> (can_write_buffer.tail_size > 0)

\* after a reset a packet is under assembly, all but its last byte there
WriteCountersConsistentSeen ==
  /\ sess.was_reset
  /\ can_write_buffer.ptr > 0
  /\ can_write_buffer.tail_size = 1

\* C19: no unsigned subtraction of comms_can_read or comms_can_write has a
\* minuend below its subtrahend, for capacities and lengths from 0 on.
NoSubtractionWraps ==
  /\ ~rd.wrapped
  /\ ~wr.wrapped

\* a call of capacity 0 met parked bytes: max_len - pos and ptr - overflow_len
\* were computed with nothing to take
NoSubtractionWrapsSeen ==
  /\ rd_hist.called
  /\ rd.max_len = 0
  /\ can_read_buffer.ptr > 0

\* C20: comms_can_read pops a packet only while pos < max_len.  Every packet
\* popped has a byte stored in data by the same call, at most 69 of its bytes
\* are parked, and a call whose capacity is 0 or is used up by the parked
\* bytes pops nothing and leaves the queue as it is.
PopsOnlyWithRoom ==
  /\ [](/\ rd.started
        /\ rd.popped > 0 => rd.dst_hi > 0
        /\ can_read_buffer.ptr <= PcktLen(15) - 1)
  /\ [][(can_read_buffer.ptr >= rd'.max_len /\ EitherRead)
        => /\ rd'.popped = 0
           /\ can_rx_q' = can_rx_q]_vars

\* a call of capacity 0 with nothing parked left a waiting packet in the queue
PopsOnlyWithRoomSeen ==
  /\ rd_hist.called
  /\ rd.max_len = 0
  /\ rd.popped = 0
  /\ can_read_buffer.ptr = 0
  /\ can_rx_q # <<>>

====
